---- MODULE Spec2Model ----
(***************************************************************************)
(* Model of the para-fintech-backend request handlers: the auth            *)
(* middleware, the signup/login routes, the wallet routes, the transaction *)
(* routes, and the three external services they call (identity provider,   *)
(* custody provider, chain RPC node) plus the user_wallets table.          *)
(*                                                                         *)
(* Every `await` of a handler is one step of the request; the synchronous *)
(* code between two awaits belongs to the step that ends at the later      *)
(* await.  The external services answer nondeterministically within what   *)
(* their clients in this repository can observe.                           *)
(***************************************************************************)
EXTENDS Integers, Sequences, FiniteSets, TLC

\* ------------------------------------------------------------------ bounds
MaxAmountLen == 3      \* longest amount string of the exhaustive amount inputs
MaxPollAttempts == 3   \* largest maxAttempts a poll is called with
NumProcs == 2      \* requests in flight at the same time
NumUsers == 1      \* distinct e-mail accounts
MaxWallets == 2    \* wallets the custody provider ever creates
MaxMined == 1      \* transactions the chain ever mines

Procs == 1..NumProcs
Emails == 1..NumUsers

\* The identity provider's id for the account of e-mail e (an opaque id that
\* is not the e-mail itself).
UserIdOf(e) == 100 + e
UserIds == {UserIdOf(e) : e \in Emails}

\* ------------------------------------------------------- request inputs
\* Authorization header, as authMiddleware sees it: absent, or a scheme word
\* followed (or not) by a token.  A token names the account it was issued for
\* and whether the identity provider still accepts it.
NoToken == [user |-> 0, kind |-> "absent"]
Tokens == [user : UserIds, kind : {"valid", "expired"}]
              \cup {[user |-> 0, kind |-> "garbage"]}
NoHeader == [present |-> FALSE, scheme |-> "", token |-> NoToken]
Headers == {NoHeader}
             \cup {[present |-> TRUE, scheme |-> "Bearer", token |-> NoToken]}
             \cup [present : {TRUE}, scheme : {"Bearer"}, token : Tokens]
             \cup {[present |-> TRUE, scheme |-> "Basic",
                    token |-> [user |-> UserIdOf(1), kind |-> "valid"]]}

\* An address string of a request body or of a custody wallet: which chain
\* address it denotes and how it is written.
\*   "checksum": 0x + 40 hex digits in EIP-55 mixed case
\*   "lower":    0x + 40 lower-case hex digits
\*   "badsum":   0x + 40 hex digits, mixed case that fails the checksum
\*   "short":    0x + fewer than 40 hex digits
\*   "text":     not hexadecimal at all ("not-an-address")
\*   "absent":   undefined / empty string
NoAddr == [shape |-> "absent", id |-> 0]
AddrStr(shape, id) == [shape |-> shape, id |-> id]
WalletAddr(w) == AddrStr("checksum", w)
Recipient == MaxWallets + 1
ToInputs == {AddrStr("checksum", Recipient), AddrStr("lower", Recipient),
             AddrStr("badsum", Recipient), AddrStr("short", Recipient),
             AddrStr("text", 0), NoAddr}

\* Decimal amount strings, one character per element.
AmtEmpty == << >>
Amt0 == <<"0">>
Amt0001 == <<"0", ".", "0", "0", "1">>
Amt1 == <<"1">>
AmtNeg == <<"-", "1">>
AmtText == <<"a", "b", "c">>
AmountInputs == {AmtEmpty, Amt0, Amt0001, Amt1, AmtNeg, AmtText}

\* A transaction hash path parameter: its length, whether it starts with
\* "0x", whether the rest is hexadecimal, and the transaction it names.
NoTx == <<0, 0, 0>>
NoHash == [len |-> 0, prefix |-> FALSE, hex |-> FALSE, tx |-> NoTx]
HashStr(tx) == [len |-> 66, prefix |-> TRUE, hex |-> TRUE, tx |-> tx]

\* ------------------------------------------------------- pure functions
\* ethers getAddress: accepts 40 hex digits in one case or with a correct
\* mixed-case checksum and returns the checksummed form; throws otherwise.
AddressOk(a) == a.shape \in {"checksum", "lower"}
getAddress(a) == AddrStr("checksum", a.id)

Digits == {"0", "1", "2", "3", "4", "5", "6", "7", "8", "9"}
Decimals == 18

RECURSIVE AllDigits(_)
AllDigits(s) == IF s = << >> THEN TRUE
                ELSE Head(s) \in Digits /\ AllDigits(Tail(s))

RECURSIVE StripZeros(_)
StripZeros(s) == IF Len(s) > 1 /\ Head(s) = "0" THEN StripZeros(Tail(s)) ELSE s

RECURSIVE PadRight(_, _)
PadRight(s, n) == IF Len(s) >= n THEN s ELSE PadRight(Append(s, "0"), n)

\* Index of the first "." of s, or 0.
RECURSIVE DotAt(_, _)
DotAt(s, i) == IF i > Len(s) THEN 0
               ELSE IF s[i] = "." THEN i ELSE DotAt(s, i + 1)

RECURSIVE AllZeros(_)
AllZeros(s) == IF s = << >> THEN TRUE
               ELSE Head(s) = "0" /\ AllZeros(Tail(s))

\* ethers parseEther(s) = parseUnits(s, 18): an optional "-", digits, an
\* optional "." and digits; at least one digit; fractional digits beyond the
\* 18th must be zeros.
\* The result is the integer whole*10^18 + fraction, here as its sign and its
\* decimal digits (no floating point is involved).
parseEther(s) ==
  LET neg   == Len(s) > 0 /\ Head(s) = "-"
      body  == IF neg THEN Tail(s) ELSE s
      dot   == DotAt(body, 1)
      whole == IF dot = 0 THEN body ELSE SubSeq(body, 1, dot - 1)
      frac  == IF dot = 0 THEN << >> ELSE SubSeq(body, dot + 1, Len(body))
      ok    == /\ AllDigits(whole) /\ AllDigits(frac)
               /\ Len(whole) + Len(frac) > 0
               /\ AllZeros(SubSeq(frac, Decimals + 1, Len(frac)))
      mag   == StripZeros(whole \o SubSeq(PadRight(frac, Decimals), 1, Decimals))
  IN  IF ok THEN [ok |-> TRUE, neg |-> neg /\ mag # <<"0">>, digits |-> mag]
      ELSE [ok |-> FALSE, neg |-> FALSE, digits |-> << >>]

\* serializeTransaction encodes the value as an unsigned big-endian integer
\* and throws on a negative one.
SerializableValue(v) == v.ok /\ ~v.neg

\* Balances the chain may report for an address, in wei, as decimal digits:
\* 1.5 ether and 2 ether.
RECURSIVE Zeros(_)
Zeros(n) == IF n = 0 THEN << >> ELSE <<"0">> \o Zeros(n - 1)
Balances == {<<"1", "5">> \o Zeros(Decimals - 1), <<"2">> \o Zeros(Decimals)}

\* (BigInt(balanceWei) / BigInt(10) ** BigInt(18)).toString(): the integer
\* quotient, i.e. the digits left of the last 18.
getBalanceInEth(balanceWei) ==
  IF Len(balanceWei) <= Decimals THEN <<"0">>
  ELSE SubSeq(balanceWei, 1, Len(balanceWei) - Decimals)

\* ---------------------------------------------------------------- state
VARIABLES
  req,        \* req[p]: the request process p is serving (or idle)
  accounts,   \* identity provider: e-mails that have an account
  wallets,    \* custody provider: the wallets, wallet id = index
  db,         \* the user_wallets table, one record per row
  txCount,    \* chain: mined transactions per sender address
  pool,       \* chain: hashes of broadcast, not yet mined transactions
  receipts,   \* chain: receipts of mined transactions
  poll,       \* the call of paraService.pollWalletReady in progress (or idle)
  boot,       \* the process environment and how loading the config ended
  calc        \* an amount string and the value parseEther made of it

vars == <<req, accounts, wallets, db, txCount, pool, receipts, poll, boot, calc>>
AppVars == <<req, accounts, wallets, db, txCount, pool, receipts>>

\* UserWallet row (types: UserWallet) and ParaWallet (types: ParaWallet).
NoRow == [supabase_id |-> 0, para_wallet_id |-> 0, wallet_address |-> NoAddr]
NoWallet == [id |-> 0, status |-> "", address |-> NoAddr, userIdentifier |-> 0]

\* The EIP-1559 transaction object buildUnsignedTransaction returns.
NoValue == [ok |-> FALSE, neg |-> FALSE, digits |-> << >>]
NoTxn == [to |-> NoAddr, from |-> NoAddr, value |-> NoValue, nonce |-> 0,
          gasLimit |-> "", maxFeePerGas |-> "", maxPriorityFeePerGas |-> "",
          chainId |-> ""]
TxHash(t) == <<t.from.id, t.nonce, t.to.id>>

\* The optional gas fields of a SendTransactionRequest ("" = not given) and
\* the pair getGasPrices returns.
NoGas == [gasLimit |-> "", maxFeePerGas |-> "", maxPriorityFeePerGas |-> ""]
NoFees == [maxFeePerGas |-> "", maxPriorityFeePerGas |-> ""]

\* A signature: the wallet whose key made it and the data it is over.
\* ParaSignResponse is {signature, data}.
NoSig == [wallet |-> 0, over |-> NoTxn]
NoSignResponse == [signature |-> NoSig, data |-> NoTxn]
NoSigned == [tx |-> NoTxn, signature |-> NoSig]

NoBalance == [wei |-> << >>, eth |-> << >>]

NoCalls == [verify |-> 0, signup |-> 0, login |-> 0, create |-> 0, save |-> 0,
            lookup |-> 0, getw |-> 0, nonce |-> 0, fee |-> 0, sign |-> 0,
            bcast |-> 0, receipt |-> 0, balance |-> 0]

\* One request: its inputs, the handler's local variables, the external
\* calls it has made so far and its response.
\*   entered: the route handler (not only the middleware) has started
\*   upfail:  the provider whose error ended the request, "" if none
\*   key:     the userIdentifier passed to createWallet
\*   saved:   the row passed to saveUserWallet
\*   body:    the "status" field of a 200/201 response body, if it has one
\*   addr:    the "address" field of the body of the wallet routes
\*   balance: the "balance" field of the body of GET /wallet, NoBalance = null
\*   ethRead: the wei string the balance read inside getBalanceInEth returned
\*   gas:     the gas fields of the send body
\*   bodyWallet: a "walletId" field a caller may put into the send body
\*   fees:    what getGasPrices returned
\*   gwid, swid: the wallet ids passed to getWallet and to signRaw
\*   signResponse: what signRaw returned
\*   signedTx: what serializeWithSignature returned and broadcast sends
IdleReq == [ep |-> "idle", pc |-> "idle", hdr |-> NoHeader,
            email |-> 0, password |-> "", to |-> NoAddr, amount |-> AmtEmpty,
            hash |-> NoHash,
            user |-> 0, uw |-> NoRow, wallet |-> NoWallet, tx |-> NoTxn,
            txHash |-> NoTx, calls |-> NoCalls, entered |-> FALSE,
            upfail |-> "", key |-> 0, saved |-> NoRow,
            status |-> 0, err |-> "", body |-> "", addr |-> NoAddr,
            balance |-> NoBalance, ethRead |-> << >>,
            gas |-> NoGas, bodyWallet |-> 0, fees |-> NoFees,
            gwid |-> 0, swid |-> 0, signResponse |-> NoSignResponse,
            signedTx |-> NoSigned]

\* pollWalletReady(walletId, maxAttempts, delayMs): its arguments, its local
\* attempts, the fetches and sleeps it has made, and how it ended.
\*   seen:     the status of the wallet of each fetch that answered, in order
\*   returned: the wallet it returned, NoWallet if none
\*   thrown:   "" | "timeout" (its own error) | "fetch" (getWallet's error)
IdlePoll == [pc |-> "idle", walletId |-> 0, maxAttempts |-> 0, attempts |-> 0,
             fetches |-> 0, waits |-> 0, seen |-> << >>,
             returned |-> NoWallet, thrown |-> ""]

\* The environment variables the config module reads.
ConfigVars == {"PORT", "NODE_ENV", "SUPABASE_URL", "SUPABASE_ANON_KEY",
               "SUPABASE_SERVICE_ROLE_KEY", "SUPABASE_JWT_SECRET",
               "PARA_API_KEY", "PARA_BASE_URL", "SEPOLIA_RPC_URL",
               "SEPOLIA_CHAIN_ID"}

\* What a variable may be in process.env: not there, "", or a usable text.
EnvValues == {"absent", "empty", "set"}
Unread == [v \in ConfigVars |-> "unread"]

\* A server that has started: every variable was set.
Booted == [env |-> [v \in ConfigVars |-> "set"], state |-> "started",
           config |-> [v \in ConfigVars |-> "env"]]

\* An amount handed to buildUnsignedTransaction: the string, and after the
\* call whether a transaction was built and its value.
NoCalc == [pc |-> "idle", amount |-> AmtEmpty, built |-> FALSE,
           value |-> NoValue]

InitApp ==
  /\ req = [p \in Procs |-> IdleReq]
  /\ accounts = {}
  /\ wallets = << >>
  /\ db = << >>
  /\ txCount = [a \in 1..MaxWallets |-> 0]
  /\ pool = {}
  /\ receipts = {}

Init == InitApp /\ poll = IdlePoll /\ boot = Booted /\ calc = NoCalc

Respond(r, code, err) == [r EXCEPT !.pc = "done", !.status = code, !.err = err]
Fail(r, code, err, who) == [Respond(r, code, err) EXCEPT !.upfail = who]
Called(r, what) == [r EXCEPT !.calls[what] = @ + 1]
Free(p) == req[p].pc = "idle"

\* ------------------------------------------------- POST /api/auth/signup
Aux == <<poll, boot, calc>>
Others == <<accounts, wallets, db, txCount, pool, receipts, Aux>>

\* Body validation of both auth routes.
CredentialsEntry(r, next) ==
  IF r.email = 0 \/ r.password = "" THEN Respond(r, 400, "Bad Request")
  ELSE [r EXCEPT !.pc = next]

StartSignup(p) ==
  /\ Free(p)
  /\ \E e \in {0} \cup Emails, pw \in {"", "good"} :
       req' = [req EXCEPT ![p] = CredentialsEntry(
                 [IdleReq EXCEPT !.ep = "signup", !.email = e, !.password = pw,
                                 !.entered = TRUE], "signup")]
  /\ UNCHANGED Others

\* Step 1: supabaseService.signup.  The provider creates the account and
\* returns user and session; or creates it and returns no session (e-mail
\* confirmation pending), which the service turns into a throw; or answers an
\* error.  For an e-mail that already has an account the provider either
\* answers an error or returns the existing user.
IdpSignup(p) ==
  LET r == Called(req[p], "signup") IN
  /\ req[p].pc = "signup"
  /\ \/ /\ accounts' = accounts \cup {r.email}
        /\ req' = [req EXCEPT ![p] = [r EXCEPT !.user = UserIdOf(r.email),
                                               !.pc = "createWallet"]]
     \/ /\ r.email \notin accounts
        /\ accounts' = accounts \cup {r.email}
        /\ req' = [req EXCEPT ![p] = Fail(r, 500, "Internal Server Error", "idp")]
     \/ /\ accounts' = accounts
        /\ req' = [req EXCEPT ![p] = Fail(r, 500, "Internal Server Error", "idp")]
  /\ UNCHANGED <<wallets, db, txCount, pool, receipts, Aux>>

\* Faulty variant: the wallet is keyed by the e-mail, not the identity id.
SignupKeyByEmail(r) == r.email

\* The userIdentifier signup passes to paraService.createWallet.
SignupWalletKey(r) == r.user

HasWalletFor(key) == \E i \in 1..Len(wallets) : wallets[i].userIdentifier = key

\* paraService.createWallet: what the service throws for an error response.
CreateWalletError(r, httpStatus) ==
  IF httpStatus = 409 THEN Fail(r, 500, "Wallet Creation Failed", "custody409")
  ELSE Fail(r, 500, "Wallet Creation Failed", "custody")

\* Faulty variant: the catch deletes the account signup has just created.
DeleteAccountOnWalletFailure(accts, r) == accts \ {r.email}

\* The identity accounts after the catch of the wallet step: the catch logs,
\* answers 500 and returns; it makes no call to the identity provider.
AccountsAfterWalletFailure(accts, r) == accts

\* Step 2: POST /v1/wallets.  The provider creates a wallet in status
\* "creating", or answers 409 when the identifier already has one, or fails.
\* The table's constraints, not the provider, are what this repository relies
\* on for uniqueness, so a provider that creates a further wallet for an
\* identifier is allowed.
CreateWallet(p) ==
  LET r == [Called(req[p], "create") EXCEPT !.key = SignupWalletKey(req[p])]
      w == [id |-> Len(wallets) + 1, status |-> "creating", address |-> NoAddr,
            userIdentifier |-> r.key]
  IN
  /\ req[p].pc = "createWallet"
  /\ \/ /\ Len(wallets) < MaxWallets
        /\ wallets' = Append(wallets, w)
        /\ req' = [req EXCEPT ![p] = [r EXCEPT !.wallet = w,
                                               !.pc = "saveUserWallet"]]
        /\ accounts' = accounts
     \/ /\ HasWalletFor(r.key)
        /\ wallets' = wallets
        /\ req' = [req EXCEPT ![p] = CreateWalletError(r, 409)]
        /\ accounts' = AccountsAfterWalletFailure(accounts, r)
     \/ /\ wallets' = wallets
        /\ req' = [req EXCEPT ![p] = CreateWalletError(r, 500)]
        /\ accounts' = AccountsAfterWalletFailure(accounts, r)
  /\ UNCHANGED <<db, txCount, pool, receipts, Aux>>

\* The row signup passes to databaseService.saveUserWallet (no address yet).
SignupRow(r) == [supabase_id |-> r.user, para_wallet_id |-> r.wallet.id,
                 wallet_address |-> NoAddr]

\* Faulty variant: the table lacks the UNIQUE constraint on supabase_id.
InsertAllowedWalletOnly(rows, row) ==
  \A i \in 1..Len(rows) : rows[i].para_wallet_id # row.para_wallet_id

\* user_wallets: supabase_id UNIQUE, para_wallet_id UNIQUE.
InsertAllowed(rows, row) ==
  /\ \A i \in 1..Len(rows) : rows[i].supabase_id # row.supabase_id
  /\ \A i \in 1..Len(rows) : rows[i].para_wallet_id # row.para_wallet_id

\* Step 3: databaseService.saveUserWallet, then the 201 response.
SaveUserWallet(p) ==
  LET r == [Called(req[p], "save") EXCEPT !.saved = SignupRow(req[p])] IN
  /\ req[p].pc = "saveUserWallet"
  /\ \/ /\ InsertAllowed(db, r.saved)
        /\ db' = Append(db, r.saved)
        /\ req' = [req EXCEPT ![p] = Respond(r, 201, "")]
     \/ /\ db' = db
        /\ req' = [req EXCEPT ![p] = Fail(r, 500, "Database Error", "db")]
  /\ UNCHANGED <<accounts, wallets, txCount, pool, receipts, Aux>>

\* -------------------------------------------------- POST /api/auth/login
StartLogin(p) ==
  /\ Free(p)
  /\ \E e \in {0} \cup Emails, pw \in {"", "good", "bad"} :
       req' = [req EXCEPT ![p] = CredentialsEntry(
                 [IdleReq EXCEPT !.ep = "login", !.email = e, !.password = pw,
                                 !.entered = TRUE], "login")]
  /\ UNCHANGED Others

\* supabaseService.login; the route answers every throw with 401.
LoginError(r, who) == Fail(r, 401, "Unauthorized", who)

IdpLogin(p) ==
  LET r == Called(req[p], "login") IN
  /\ req[p].pc = "login"
  /\ \/ /\ r.email \in accounts /\ r.password = "good"
        /\ req' = [req EXCEPT ![p] = Respond([r EXCEPT !.user = UserIdOf(r.email)],
                                             200, "")]
     \/ /\ ~(r.email \in accounts /\ r.password = "good")
        /\ req' = [req EXCEPT ![p] = LoginError(r, "credentials")]
     \/ req' = [req EXCEPT ![p] = LoginError(r, "idp")]
  /\ UNCHANGED Others

\* ------------------------------------------------------- authMiddleware
\* router.use(authMiddleware) precedes every route of the wallet router and
\* of the transaction router.
Protected == {"wallet", "status", "send", "tx"}

\* GET /wallet and GET /wallet/status: nothing to validate.
WalletEntry(r) == [r EXCEPT !.entered = TRUE, !.pc = "getUserWallet"]

\* Faulty variant: the recipient address is not validated up front.
SendEntryNoAddressCheck(r) ==
  LET e == [r EXCEPT !.entered = TRUE] IN
  IF e.to = NoAddr \/ e.amount = AmtEmpty THEN Respond(e, 400, "Bad Request")
  ELSE [e EXCEPT !.pc = "getUserWallet"]

\* POST /transaction/send: required fields, then the recipient address.
SendEntry(r) ==
  LET e == [r EXCEPT !.entered = TRUE] IN
  IF e.to = NoAddr \/ e.amount = AmtEmpty THEN Respond(e, 400, "Bad Request")
  ELSE IF ~AddressOk(e.to) THEN Respond(e, 400, "Bad Request")
  ELSE [e EXCEPT !.pc = "getUserWallet"]

\* GET /transaction/:txHash: prefix and length of the hash.
HashShapeOk(h) == h.prefix /\ h.len = 66

TxEntry(r) ==
  LET e == [r EXCEPT !.entered = TRUE] IN
  IF ~HashShapeOk(e.hash) THEN Respond(e, 400, "Bad Request")
  ELSE [e EXCEPT !.pc = "receipt"]

\* next(): the route the request was sent to.
RouteEntry(r) ==
  CASE r.ep \in {"wallet", "status"} -> WalletEntry(r)
    [] r.ep = "send" -> SendEntry(r)
    [] r.ep = "tx" -> TxEntry(r)

\* Faulty variant: a request without a header is let through.
authMiddlewareAnonymous(r) ==
  IF ~r.hdr.present THEN RouteEntry(r)
  ELSE IF r.hdr.token.kind = "absent" THEN Respond(r, 401, "Unauthorized")
  ELSE [r EXCEPT !.pc = "verifyToken"]

\* Synchronous part: the header must exist and carry a second word.
authMiddleware(r) ==
  IF ~r.hdr.present THEN Respond(r, 401, "Unauthorized")
  ELSE IF r.hdr.token.kind = "absent" THEN Respond(r, 401, "Unauthorized")
  ELSE [r EXCEPT !.pc = "verifyToken"]

\* A request to a router: through the middleware if the router has it.
Dispatch(r) == IF r.ep \in Protected THEN authMiddleware(r) ELSE RouteEntry(r)

StartWallet(p, headers) ==
  /\ Free(p)
  /\ \E h \in headers, ep \in {"wallet", "status"} :
       req' = [req EXCEPT ![p] = Dispatch([IdleReq EXCEPT !.ep = ep, !.hdr = h])]
  /\ UNCHANGED Others

StartSend(p, inputs) ==
  /\ Free(p)
  /\ \E i \in inputs :
       req' = [req EXCEPT ![p] = Dispatch([IdleReq EXCEPT !.ep = "send",
                 !.hdr = i.hdr, !.to = i.to, !.amount = i.amount,
                 !.gas = i.gas, !.bodyWallet = i.walletId])]
  /\ UNCHANGED Others

StartTx(p, inputs) ==
  /\ Free(p)
  /\ \E i \in inputs :
       req' = [req EXCEPT ![p] = Dispatch([IdleReq EXCEPT !.ep = "tx",
                 !.hdr = i.hdr, !.hash = i.hash])]
  /\ UNCHANGED Others

\* supabase.auth.getUser(token) accepts a token that is unexpired and was
\* issued for an existing account.
TokenAccepted(t) ==
  t.kind = "valid" /\ \E e \in accounts : UserIdOf(e) = t.user

\* supabaseService.verifyToken; every throw is answered 401 by the middleware.
VerifyToken(p) ==
  LET r == Called(req[p], "verify") IN
  /\ req[p].pc = "verifyToken"
  /\ \/ /\ TokenAccepted(r.hdr.token)
        /\ req' = [req EXCEPT ![p] = RouteEntry([r EXCEPT !.user = r.hdr.token.user])]
     \/ /\ ~TokenAccepted(r.hdr.token)
        /\ req' = [req EXCEPT ![p] = Respond(r, 401, "Unauthorized")]
     \/ req' = [req EXCEPT ![p] = Fail(r, 401, "Unauthorized", "idp")]
  /\ UNCHANGED Others

\* --------------------------------------------- steps shared by the routes
\* The outer catch of a route handler.
RouteError(r, who) ==
  Fail(r, 500, IF r.ep = "send" THEN "Transaction Failed"
               ELSE "Internal Server Error", who)

\* databaseService.getUserWallet: .single() yields the row when exactly one
\* matches and PGRST116 (mapped to null) otherwise.
RowsOf(uid) == {i \in 1..Len(db) : db[i].supabase_id = uid}
getUserWallet(uid) ==
  IF Cardinality(RowsOf(uid)) = 1 THEN db[CHOOSE i \in RowsOf(uid) : TRUE]
  ELSE NoRow

\* Faulty variant: a lookup that finds no row is an internal error.
OnMissingRowThrows(r) == RouteError(r, "")

\* `if (!userWallet)`: the 404 of the wallet and the send routes.
OnMissingRow(r) == Respond(r, 404, "Not Found")

GetUserWallet(p) ==
  LET r == Called(req[p], "lookup")
      row == getUserWallet(r.user)
  IN
  /\ req[p].pc = "getUserWallet"
  /\ \/ /\ row # NoRow
        /\ req' = [req EXCEPT ![p] = [r EXCEPT !.uw = row, !.pc = "getWallet"]]
     \/ /\ row = NoRow
        /\ req' = [req EXCEPT ![p] = OnMissingRow(r)]
     \/ req' = [req EXCEPT ![p] = RouteError(r, "db")]
  /\ UNCHANGED Others

\* Faulty variant: any fetched wallet counts as ready.
WalletHasStatus(w) == w.status # ""

\* The readiness test of send and of GET /wallet.
WalletIsReady(w) == w.status = "ready" /\ w.address # NoAddr

\* Faulty variant: the address comes from the mapping row, not the provider.
StatusResponseCached(r) ==
  Respond([r EXCEPT !.body = r.wallet.status, !.addr = r.uw.wallet_address],
          200, "")

\* The 200 of GET /wallet/status: the provider's status and address.
StatusResponse(r) ==
  Respond([r EXCEPT !.body = r.wallet.status, !.addr = r.wallet.address],
          200, "")

\* The 200 of GET /wallet.
WalletResponse(r, balance) ==
  Respond([r EXCEPT !.body = r.wallet.status, !.addr = r.wallet.address,
                    !.balance = balance], 200, "")

\* What each route does with the ParaWallet it fetched.
AfterGetWallet(r) ==
  CASE r.ep = "status" -> StatusResponse(r)
    [] r.ep = "wallet" ->
         IF WalletIsReady(r.wallet) THEN [r EXCEPT !.pc = "getBalance"]
         ELSE WalletResponse(r, NoBalance)
    [] r.ep = "send" ->
         IF ~WalletIsReady(r.wallet) THEN Respond(r, 400, "Wallet Not Ready")
         ELSE IF ~AddressOk(r.wallet.address) \/ ~AddressOk(r.to)
           THEN RouteError(r, "")   \* getAddress throws in buildUnsignedTransaction
         ELSE [r EXCEPT !.pc = "getNonce",
                        !.tx = [NoTxn EXCEPT !.from = getAddress(r.wallet.address),
                                             !.to = getAddress(r.to)]]

\* Faulty variant: a route that fetched a ready wallet stores its address in
\* the user's row (databaseService.updateWalletAddress).
CacheWalletAddress(rows, r) ==
  [i \in 1..Len(rows) |->
     IF rows[i].supabase_id = r.user /\ r.wallet.status = "ready"
       THEN [rows[i] EXCEPT !.wallet_address = r.wallet.address]
     ELSE rows[i]]

\* The table after a route has fetched the wallet: the wallet and the
\* transaction routes call getUserWallet only; updateWalletAddress has no
\* caller.
RowsAfterWalletFetch(rows, r) == rows

\* Faulty variant: a wallet id in the request body takes precedence.
CustodyWalletIdFromBody(r) ==
  IF r.bodyWallet # 0 THEN r.bodyWallet ELSE r.uw.para_wallet_id

\* The wallet id the routes pass to paraService.getWallet and signRaw.
CustodyWalletId(r) == r.uw.para_wallet_id

\* paraService.getWallet(userWallet.para_wallet_id): the provider's wallet of
\* that id, or a throw (always, if there is no such wallet).
GetWallet(p) ==
  LET r == [Called(req[p], "getw") EXCEPT !.gwid = CustodyWalletId(req[p])]
      f == [r EXCEPT !.wallet = wallets[r.gwid]]
  IN
  /\ req[p].pc = "getWallet"
  /\ \/ /\ r.gwid \in 1..Len(wallets)
        /\ req' = [req EXCEPT ![p] = AfterGetWallet(f)]
        /\ db' = RowsAfterWalletFetch(db, f)
     \/ /\ req' = [req EXCEPT ![p] = RouteError(r, "custody")]
        /\ db' = db
  /\ UNCHANGED <<accounts, wallets, txCount, pool, receipts, Aux>>

\* ------------------------------------------------------ GET /api/wallet
\* blockchainService.getBalance, then getBalanceInEth (a second balance read).
\* The chain reports the balance of the address at the time of each read;
\* transfers by anyone may change it between the two.
GetBalance(p) ==
  LET r == Called(req[p], "balance") IN
  /\ req[p].pc = "getBalance"
  /\ \/ \E b \in Balances :
          req' = [req EXCEPT ![p] = [r EXCEPT !.balance.wei = b,
                                              !.pc = "getBalanceInEth"]]
     \/ req' = [req EXCEPT ![p] = RouteError([r EXCEPT !.balance = NoBalance], "rpc")]
  /\ UNCHANGED Others

\* Faulty variant: the ether figure is computed from the wei string the
\* route already holds.
EthFromFirstRead(r, b) == r.balance.wei

\* The wei string getBalanceInEth divides: that of its own balance read, b.
EthSource(r, b) == b

GetBalanceInEth(p) ==
  LET r == Called(req[p], "balance") IN
  /\ req[p].pc = "getBalanceInEth"
  /\ \/ \E b \in Balances :
          req' = [req EXCEPT ![p] =
                    WalletResponse([r EXCEPT !.ethRead = b],
                                   [wei |-> r.balance.wei,
                                    eth |-> getBalanceInEth(EthSource(r, b))])]
     \/ req' = [req EXCEPT ![p] = RouteError([r EXCEPT !.balance = NoBalance], "rpc")]
  /\ UNCHANGED Others

\* -------------------------------------------- POST /api/transaction/send
\* BigInt(s) throws for a string that is not a number.
JunkNumbers == {"gwei"}

\* Faulty variant: the caller's gas field is ignored.
GasFieldIgnoringOverride(override, fallback) == fallback

\* `request.x ? BigInt(request.x) : <fallback>`
GasField(override, fallback) == IF override # "" THEN override ELSE fallback

\* The transaction object but for its value: the two addresses and the nonce
\* are in r.tx already; the gas fields and the chain id of the config.
WithGasFields(r) ==
  [r.tx EXCEPT
     !.gasLimit = GasField(r.gas.gasLimit, "21000"),
     !.maxFeePerGas = GasField(r.gas.maxFeePerGas, r.fees.maxFeePerGas),
     !.maxPriorityFeePerGas =
        GasField(r.gas.maxPriorityFeePerGas, r.fees.maxPriorityFeePerGas),
     !.chainId = boot.config["SEPOLIA_CHAIN_ID"]]

GasFieldsThrow(r) ==
  \/ r.gas.gasLimit \in JunkNumbers
  \/ r.gas.maxFeePerGas \in JunkNumbers
  \/ r.gas.maxPriorityFeePerGas \in JunkNumbers

\* Faulty variant: the amount is cut to whole ethers before scaling.
BuildTransactionWholeEther(r) ==
  LET v == parseEther(r.amount)
      n == Len(v.digits)
  IN
  IF GasFieldsThrow(r) \/ ~SerializableValue(v) THEN RouteError(r, "")
  ELSE [r EXCEPT !.tx = [WithGasFields(r) EXCEPT !.value = [v EXCEPT !.digits =
                                 IF n > Decimals
                                   THEN SubSeq(v.digits, 1, n - Decimals) \o Zeros(Decimals)
                                 ELSE <<"0">>]],
                 !.pc = "signRaw"]

\* The rest of buildUnsignedTransaction after the two lookups: the gas
\* fields, the parsed value, and the serialization; each may throw.
BuildTransaction(r) ==
  LET v == parseEther(r.amount) IN
  IF GasFieldsThrow(r) \/ ~SerializableValue(v) THEN RouteError(r, "")
  ELSE [r EXCEPT !.tx = [WithGasFields(r) EXCEPT !.value = v],
                 !.pc = "signRaw"]

\* Faulty variant: no fee lookup when the caller gave both fee fields.
NoFeeLookupWhenOverridden(r) ==
  IF r.gas.maxFeePerGas # "" /\ r.gas.maxPriorityFeePerGas # ""
    THEN BuildTransaction(r)
  ELSE [r EXCEPT !.pc = "getGasPrices"]

\* buildUnsignedTransaction after getNonce: `await this.getGasPrices()`.
AfterNonce(r) == [r EXCEPT !.pc = "getGasPrices"]

\* Faulty variant: a send waits while another send of the same sender is
\* between its nonce read and its broadcast.
NonceReadExclusive(p) ==
  \A q \in Procs \ {p} :
    ~(/\ req[q].ep = "send"
      /\ req[q].pc \in {"getGasPrices", "signRaw", "broadcast"}
      /\ req[q].tx.from = req[p].tx.from)

\* What a send waits for before it reads the nonce: nothing (no lock, no
\* queue per wallet).
NonceReadAllowed(p) == TRUE

\* provider.getTransactionCount(from): the count at the latest block.
GetNonce(p) ==
  LET r == Called(req[p], "nonce") IN
  /\ req[p].pc = "getNonce"
  /\ NonceReadAllowed(p)
  /\ \/ req' = [req EXCEPT ![p] =
                  AfterNonce([r EXCEPT !.tx.nonce = txCount[r.tx.from.id]])]
     \/ req' = [req EXCEPT ![p] = RouteError(r, "rpc")]
  /\ UNCHANGED Others

\* What provider.getFeeData() may report as the EIP-1559 fees.
FeeEstimates == {[maxFeePerGas |-> "30", maxPriorityFeePerGas |-> "2"]}

\* provider.getFeeData(): fee data, fee data without the EIP-1559 fields
\* (getGasPrices throws), or an RPC error.
GetGasPrices(p) ==
  LET r == Called(req[p], "fee") IN
  /\ req[p].pc = "getGasPrices"
  /\ \/ \E f \in FeeEstimates :
          req' = [req EXCEPT ![p] = BuildTransaction([r EXCEPT !.fees = f])]
     \/ req' = [req EXCEPT ![p] = RouteError(r, "rpc")]
     \/ req' = [req EXCEPT ![p] = RouteError(r, "feedata")]
  /\ UNCHANGED Others

\* Faulty variant: the transaction is rebuilt from the data the signer echoes.
SignedTransactionFromEcho(r) ==
  [tx |-> r.signResponse.data, signature |-> r.signResponse.signature]

\* serializeWithSignature(transaction, signResponse.signature): the fields of
\* the transaction object built before signing, and the signature.
SignedTransaction(r) ==
  [tx |-> r.tx, signature |-> r.signResponse.signature]

\* Faulty variant: a failed sign call is ignored.
BroadcastUnsigned(r) == [r EXCEPT !.pc = "broadcast"]

\* What send does when paraService.signRaw throws.
OnSignError(r) == RouteError(r, "custody")

\* What the signer may echo as "data": what it was sent, or something else.
EchoKinds == {"same", "other"}
SignerEcho(kind, t) ==
  IF kind = "same" THEN t ELSE [t EXCEPT !.value.digits = <<"9">>]

\* paraService.signRaw(userWallet.para_wallet_id, dataHash), dataHash being
\* the serialized unsigned transaction; then serializeWithSignature.
\* kinds: the kinds of echo the signer may answer with.
SignRaw(p, kinds) ==
  LET r == [Called(req[p], "sign") EXCEPT !.swid = CustodyWalletId(req[p])] IN
  /\ req[p].pc = "signRaw"
  /\ \/ \E echo \in {SignerEcho(k, r.tx) : k \in kinds} :
          LET a == [r EXCEPT !.signResponse =
                      [signature |-> [wallet |-> r.swid, over |-> r.tx],
                       data |-> echo]]
          IN req' = [req EXCEPT ![p] = [a EXCEPT !.signedTx = SignedTransaction(a),
                                                 !.pc = "broadcast"]]
     \/ req' = [req EXCEPT ![p] = OnSignError(r)]
  /\ UNCHANGED Others

\* Faulty variant: a failed broadcast is tried once more.
RetryBroadcast(r) ==
  IF r.calls.bcast < 2 THEN [r EXCEPT !.pc = "broadcast"]
  ELSE Fail(r, 500, "Transaction Failed", "rpc")

\* What send does when blockchainService.broadcastTransaction throws.
OnBroadcastError(r) == RouteError(r, "rpc")

\* The node's test of a raw transaction: signed, by the key of the sender,
\* over these very fields.
SignatureValid(t) ==
  /\ t.signature.wallet \in 1..Len(wallets)
  /\ t.signature.over = t.tx
  /\ wallets[t.signature.wallet].address.id = t.tx.from.id

\* provider.broadcastTransaction(signedTx): the node takes the transaction
\* into its pool unless its signature is invalid or its nonce used up, or
\* rejects it.
Broadcast(p) ==
  LET r == Called(req[p], "bcast")
      h == TxHash(r.signedTx.tx)
  IN
  /\ req[p].pc = "broadcast"
  /\ \/ /\ SignatureValid(r.signedTx)
        /\ r.signedTx.tx.nonce >= txCount[r.signedTx.tx.from.id]
        /\ pool' = pool \cup {h}
        /\ req' = [req EXCEPT ![p] =
                     Respond([r EXCEPT !.txHash = h, !.body = "pending"], 201, "")]
     \/ /\ pool' = pool
        /\ req' = [req EXCEPT ![p] = OnBroadcastError(r)]
  /\ UNCHANGED <<accounts, wallets, db, txCount, receipts, Aux>>

\* -------------------------------------------- GET /api/transaction/:txHash
ReceiptOf(h) == {c \in receipts : c.tx = h.tx /\ h.hex}

\* blockchainService.waitForTransaction(txHash, 0): the receipt or null; a
\* throw is caught by the inner try and answered 404.
GetReceipt(p) ==
  LET r == Called(req[p], "receipt") IN
  /\ req[p].pc = "receipt"
  /\ \/ \E c \in ReceiptOf(r.hash) :
          req' = [req EXCEPT ![p] = Respond(
                    [r EXCEPT !.body = IF c.status = 1 THEN "success" ELSE "failed"],
                    200, "")]
     \/ /\ ReceiptOf(r.hash) = {} /\ r.hash.hex
        /\ req' = [req EXCEPT ![p] = Respond(r, 404, "Not Found")]
     \/ req' = [req EXCEPT ![p] = Fail(r, 404, "Not Found", "rpc")]
  /\ UNCHANGED Others

\* buildUnsignedTransaction applied to a request with the amount of calc,
\* past its two lookups.
ParseAmount ==
  LET r == BuildTransaction([IdleReq EXCEPT !.ep = "send", !.pc = "getGasPrices",
                                            !.amount = calc.amount])
  IN
  /\ calc.pc = "in"
  /\ calc' = [calc EXCEPT !.pc = "out", !.built = (r.pc = "signRaw"),
                          !.value = r.tx.value]
  /\ UNCHANGED <<AppVars, poll, boot>>

\* ------------------------------------------------------------ environment
\* The custody provider finishes key generation of wallet w.
WalletReady(w) ==
  /\ w \in 1..Len(wallets)
  /\ wallets[w].status = "creating"
  /\ wallets' = [wallets EXCEPT ![w].status = "ready", ![w].address = WalletAddr(w)]
  /\ UNCHANGED <<req, accounts, db, txCount, pool, receipts, Aux>>

\* The chain mines a pooled transaction whose nonce is the sender's next one;
\* pooled transactions of the same sender and nonce are dropped.
Mine(h) ==
  /\ h \in pool
  /\ h[2] = txCount[h[1]]
  /\ Cardinality(receipts) < MaxMined
  /\ \E st \in {0, 1} : receipts' = receipts \cup {[tx |-> h, status |-> st]}
  /\ txCount' = [txCount EXCEPT ![h[1]] = @ + 1]
  /\ pool' = {g \in pool : ~(g[1] = h[1] /\ g[2] = h[2])}
  /\ UNCHANGED <<req, accounts, wallets, db, Aux>>

\* ------------------------------------------------------------- config
\* process.env[v] is truthy.
Truthy(e, v) == e[v] = "set"

\* Faulty variant: SEPOLIA_RPC_URL is not among the required variables.
requiredVarsNoRpc ==
  {"SUPABASE_URL", "SUPABASE_ANON_KEY", "SUPABASE_SERVICE_ROLE_KEY",
   "SUPABASE_JWT_SECRET", "PARA_API_KEY"}

requiredVars ==
  {"SUPABASE_URL", "SUPABASE_ANON_KEY", "SUPABASE_SERVICE_ROLE_KEY",
   "SUPABASE_JWT_SECRET", "PARA_API_KEY", "SEPOLIA_RPC_URL"}

\* The variables read as `process.env.X || <literal>`.
defaultedVars == {"PORT", "NODE_ENV", "PARA_BASE_URL", "SEPOLIA_CHAIN_ID"}

\* The config object: where each value comes from.
configOf(e) ==
  [v \in ConfigVars |->
     IF v \in defaultedVars
       THEN IF Truthy(e, v) THEN "env" ELSE "default"
     ELSE IF e[v] = "absent" THEN "undefined" ELSE "env"]

\* Import of the config module: the object is built, then the loop over
\* requiredVars throws for the first one that is missing, which ends the
\* process before the server listens.
LoadConfig ==
  /\ boot.state = "loading"
  /\ boot' = [boot EXCEPT
                !.config = configOf(boot.env),
                !.state = IF \E v \in requiredVars : ~Truthy(boot.env, v)
                          THEN "failed" ELSE "started"]
  /\ UNCHANGED <<AppVars, poll, calc>>

\* ------------------------------------------- paraService.pollWalletReady
\* A call pollWalletReady(w, n, delayMs); the loop test holds as n >= 1.
PollStart(w, n) ==
  /\ poll.pc = "idle"
  /\ poll' = [IdlePoll EXCEPT !.pc = "fetch", !.walletId = w, !.maxAttempts = n]
  /\ UNCHANGED <<AppVars, boot, calc>>

\* Faulty variant: attempts is not incremented.
PollAfterNotReadyNoCount(q) == [q EXCEPT !.pc = "wait"]

\* Faulty variant: the loop gives up one attempt early.
PollAfterNotReadyGiveUpEarly(q) ==
  LET a == q.attempts + 1 IN
  IF a + 1 < q.maxAttempts THEN [q EXCEPT !.attempts = a, !.pc = "wait"]
  ELSE [q EXCEPT !.attempts = a, !.pc = "done", !.thrown = "timeout"]

\* The loop body after a fetch of a wallet that is not ready: attempts++,
\* then the sleep, or the end of the loop and the throw after it.
PollAfterNotReady(q) ==
  LET a == q.attempts + 1 IN
  IF a < q.maxAttempts THEN [q EXCEPT !.attempts = a, !.pc = "wait"]
  ELSE [q EXCEPT !.attempts = a, !.pc = "done", !.thrown = "timeout"]

\* wallet = await this.getWallet(walletId): the provider's wallet, or the
\* throw of getWallet, which pollWalletReady does not catch.
PollFetch ==
  LET q == [poll EXCEPT !.fetches = @ + 1]
      s == [q EXCEPT !.seen = Append(@, wallets[poll.walletId].status)]
  IN
  /\ poll.pc = "fetch"
  /\ poll.fetches <= MaxPollAttempts
  /\ \/ /\ poll.walletId \in 1..Len(wallets)
        /\ poll' = IF wallets[poll.walletId].status = "ready"
                   THEN [s EXCEPT !.pc = "done",
                                  !.returned = wallets[poll.walletId]]
                   ELSE PollAfterNotReady(s)
     \/ poll' = [q EXCEPT !.pc = "done", !.thrown = "fetch"]
  /\ UNCHANGED <<AppVars, boot, calc>>

\* await new Promise(resolve => setTimeout(resolve, delayMs))
PollWait ==
  /\ poll.pc = "wait"
  /\ poll' = [poll EXCEPT !.waits = @ + 1, !.pc = "fetch"]
  /\ UNCHANGED <<AppVars, boot, calc>>

\* The caller has the outcome.
PollFinish ==
  /\ poll.pc = "done"
  /\ poll' = IdlePoll
  /\ UNCHANGED <<AppVars, boot, calc>>

\* The response of p's request has been sent; p takes the next request.
Finish(p) ==
  /\ req[p].pc = "done"
  /\ req' = [req EXCEPT ![p] = IdleReq]
  /\ UNCHANGED Others

\* ------------------------------------------------------ specifications
Bearer(u) == [present |-> TRUE, scheme |-> "Bearer",
              token |-> [user |-> u, kind |-> "valid"]]
GoodHeaders == {Bearer(u) : u \in UserIds}
GoodTo == AddrStr("checksum", Recipient)

\* Sends: the first user's token with every recipient and with every amount,
\* every accepted token with a well-formed body, and a missing, an expired
\* and a garbage token with a well-formed body.
SendInputs ==
  [hdr : {Bearer(UserIdOf(1))}, to : ToInputs, amount : {Amt1},
   gas : {NoGas}, walletId : {0}]
    \cup [hdr : {Bearer(UserIdOf(1))}, to : {GoodTo}, amount : AmountInputs,
          gas : {NoGas}, walletId : {0}]
    \cup [hdr : {Bearer(UserIdOf(1))}, to : {AddrStr("text", 0)},
          amount : {AmtEmpty}, gas : {NoGas}, walletId : {0}]
    \cup [hdr : GoodHeaders
                 \cup {NoHeader}
                 \cup {h \in Headers : /\ h.scheme = "Bearer"
                                       /\ h.token.user \in {0, UserIdOf(1)}
                                       /\ h.token.kind \in {"expired", "garbage"}},
          to : {GoodTo}, amount : {Amt1}, gas : {NoGas}, walletId : {0}]

FirstTx == <<1, 0, Recipient>>
HashInputs == {HashStr(FirstTx),
               [HashStr(FirstTx) EXCEPT !.len = 10],
               [HashStr(FirstTx) EXCEPT !.prefix = FALSE],
               [HashStr(FirstTx) EXCEPT !.hex = FALSE]}
TxInputs ==
  [hdr : {Bearer(UserIdOf(1))}, hash : HashInputs]
    \cup [hdr : {NoHeader} \cup {h \in Headers : h.token.kind = "garbage"},
          hash : {HashStr(FirstTx)}]

Environment ==
  \/ \E w \in 1..MaxWallets : WalletReady(w)
  \/ \E h \in pool : Mine(h)

\* The continuation of the request process p is serving.
Continue(p) ==
  \/ IdpSignup(p) \/ CreateWallet(p) \/ SaveUserWallet(p) \/ IdpLogin(p)
  \/ VerifyToken(p) \/ GetUserWallet(p) \/ GetWallet(p)
  \/ GetBalance(p) \/ GetBalanceInEth(p)
  \/ GetNonce(p) \/ GetGasPrices(p) \/ SignRaw(p, {"same"}) \/ Broadcast(p)
  \/ GetReceipt(p)

\* One request at a time, with every kind of input.
Next ==
  \/ StartSignup(1) \/ StartLogin(1) \/ StartWallet(1, Headers)
  \/ StartSend(1, SendInputs) \/ StartTx(1, TxInputs)
  \/ Continue(1) \/ Finish(1)
  \/ Environment

Spec == Init /\ [][Next]_vars

\* Signup requests in flight together, interleaved at their awaits.
NextSignups ==
  \E p \in Procs :
    \/ StartSignup(p) \/ IdpSignup(p) \/ CreateWallet(p) \/ SaveUserWallet(p)
    \/ Finish(p)

SpecSignups == Init /\ [][NextSignups]_vars

\* Polls beside the custody provider's progress, once signups of the first
\* user have left k wallets at the provider: the first with its row, the
\* others orphaned by a failed insert.  The event loop resumes the poll when
\* the promise it awaits settles (a fetch answers or fails, a timer fires),
\* hence weak fairness of its two steps.
PollStep == PollFetch \/ PollWait

InitPoll ==
  /\ req = [p \in Procs |-> IdleReq]
  /\ \E k \in 0..MaxWallets :
       /\ wallets = [i \in 1..k |-> [id |-> i, status |-> "creating",
                                      address |-> NoAddr,
                                      userIdentifier |-> UserIdOf(1)]]
       /\ accounts = IF k = 0 THEN {} ELSE {1}
       /\ db = IF k = 0 THEN << >>
               ELSE <<[supabase_id |-> UserIdOf(1), para_wallet_id |-> 1,
                       wallet_address |-> NoAddr]>>
  /\ txCount = [a \in 1..MaxWallets |-> 0]
  /\ pool = {} /\ receipts = {}
  /\ poll = IdlePoll /\ boot = Booted /\ calc = NoCalc

NextPoll ==
  \/ \E w \in 1..MaxWallets : WalletReady(w)
  \/ \E w \in 1..MaxWallets, n \in 1..MaxPollAttempts : PollStart(w, n)
  \/ PollStep
  \/ PollFinish

SpecPoll == InitPoll /\ [][NextPoll]_vars /\ WF_vars(PollStep)

\* Sends of one client with every combination of gas fields and with a
\* wallet id smuggled into the body, in the states signups of the first user
\* leave behind, beside the custody provider and the chain.
GasInputs ==
  [gasLimit : {"", "50000"}, maxFeePerGas : {"", "40"},
   maxPriorityFeePerGas : {"", "3"}]
    \cup {[NoGas EXCEPT !.maxFeePerGas = "gwei"]}

SendGasInputs ==
  [hdr : GoodHeaders, to : {GoodTo}, amount : {Amt1}, gas : GasInputs,
   walletId : 0..MaxWallets]

SendStep ==
  \/ VerifyToken(1) \/ GetUserWallet(1) \/ GetWallet(1)
  \/ GetNonce(1) \/ GetGasPrices(1) \/ SignRaw(1, EchoKinds) \/ Broadcast(1)

NextSend ==
  \/ StartSend(1, SendGasInputs)
  \/ SendStep
  \/ Finish(1)
  \/ Environment

SpecSend == InitPoll /\ [][NextSend]_vars

\* The three routes that call the custody provider, for one client.
NextCustody ==
  \/ NextSend
  \/ StartWallet(1, GoodHeaders)
  \/ GetBalance(1) \/ GetBalanceInEth(1)

SpecCustody == InitPoll /\ [][NextCustody]_vars

\* Sends in flight together, interleaved at their awaits, once the first
\* user has signed up and the wallet is ready.
InitSends ==
  /\ req = [p \in Procs |-> IdleReq]
  /\ wallets = <<[id |-> 1, status |-> "ready", address |-> WalletAddr(1),
                  userIdentifier |-> UserIdOf(1)]>>
  /\ accounts = {1}
  /\ db = <<[supabase_id |-> UserIdOf(1), para_wallet_id |-> 1,
             wallet_address |-> NoAddr]>>
  /\ txCount = [a \in 1..MaxWallets |-> 0]
  /\ pool = {} /\ receipts = {}
  /\ poll = IdlePoll /\ boot = Booted /\ calc = NoCalc

SendsInputs ==
  [hdr : {Bearer(UserIdOf(1))}, to : {GoodTo}, amount : {Amt1},
   gas : {NoGas}, walletId : {0}]

NextSends ==
  \/ \E p \in Procs :
       \/ StartSend(p, SendsInputs)
       \/ VerifyToken(p) \/ GetUserWallet(p) \/ GetWallet(p)
       \/ GetNonce(p) \/ GetGasPrices(p) \/ SignRaw(p, {"same"})
       \/ Broadcast(p)
       \/ Finish(p)
  \/ \E h \in pool : Mine(h)

SpecSends == InitSends /\ [][NextSends]_vars

\* The wallet router after signups, beside the custody provider's progress.
\* The event loop resumes a handler when the call it awaits settles, hence
\* weak fairness of the handlers' continuations.
WalletRouterStep ==
  \/ VerifyToken(1) \/ GetUserWallet(1) \/ GetWallet(1)
  \/ GetBalance(1) \/ GetBalanceInEth(1)

NextStatus ==
  \/ StartSignup(1) \/ IdpSignup(1) \/ CreateWallet(1) \/ SaveUserWallet(1)
  \/ StartWallet(1, GoodHeaders)
  \/ WalletRouterStep
  \/ Finish(1)
  \/ \E w \in 1..MaxWallets : WalletReady(w)

SpecStatus == Init /\ [][NextStatus]_vars /\ WF_vars(WalletRouterStep)

\* One client beside an identity provider that rejects a signup for an
\* e-mail that has an account: signups, logins, and the routes that need the
\* row of the user.
IdpSignupOnce(p) ==
  /\ IdpSignup(p)
  /\ req[p].email \in accounts => req'[p].pc = "done"

OnceSendInputs ==
  [hdr : GoodHeaders, to : {GoodTo}, amount : {Amt1}, gas : {NoGas},
   walletId : {0}]

NextOnce ==
  \/ StartSignup(1) \/ IdpSignupOnce(1) \/ CreateWallet(1) \/ SaveUserWallet(1)
  \/ StartLogin(1) \/ IdpLogin(1)
  \/ StartWallet(1, GoodHeaders) \/ StartSend(1, OnceSendInputs)
  \/ WalletRouterStep
  \/ GetNonce(1) \/ GetGasPrices(1) \/ SignRaw(1, {"same"}) \/ Broadcast(1)
  \/ Finish(1)
  \/ \E w \in 1..MaxWallets : WalletReady(w)

SpecOnce == Init /\ [][NextOnce]_vars

\* Amount strings: every string of up to MaxAmountLen of these characters,
\* and longer ones around the 18th fractional digit.
AmountChars == {"0", "1", "5", ".", "-", "e"}
OneWei == <<"0", ".">> \o Zeros(Decimals - 1) \o <<"1">>
AmountStrings ==
  UNION {[1..n -> AmountChars] : n \in 0..MaxAmountLen}
    \cup {Amt0001, OneWei,
          <<"0", ".">> \o Zeros(Decimals) \o <<"1">>,
          <<"1", ".", "5">> \o Zeros(Decimals)}

InitAmounts ==
  /\ InitApp /\ poll = IdlePoll /\ boot = Booted
  /\ calc \in [pc : {"in"}, amount : AmountStrings, built : {FALSE},
               value : {NoValue}]

SpecAmounts == InitAmounts /\ [][ParseAmount]_vars

\* Start of the process under every environment.
InitConfig ==
  /\ InitApp /\ poll = IdlePoll /\ calc = NoCalc
  /\ boot \in [env : [ConfigVars -> EnvValues], state : {"loading"},
               config : {Unread}]

SpecConfig == InitConfig /\ [][LoadConfig]_vars

\* ================================================================ claims
ChainCalls(r) == r.calls.nonce + r.calls.fee + r.calls.bcast
                   + r.calls.receipt + r.calls.balance

\* C1: a send by an authenticated user whose fetched remote wallet is not
\* ready (status "creating", or no address) ends with 400 "Wallet Not Ready"
\* and has made no nonce lookup, no fee lookup, no broadcast and no sign call.
C1_NotReadyNoChainCall ==
  \A p \in Procs :
    LET r == req[p] IN
    (/\ r.ep = "send" /\ r.wallet # NoWallet
     /\ (r.wallet.status # "ready" \/ r.wallet.address.shape = "absent"))
      => /\ r.pc = "done" /\ r.status = 400 /\ r.err = "Wallet Not Ready"
         /\ ChainCalls(r) = 0 /\ r.calls.sign = 0

C1_Witness ==
  \E p \in Procs :
    /\ req[p].ep = "send" /\ req[p].pc = "done"
    /\ req[p].wallet.status = "creating" /\ req[p].err = "Wallet Not Ready"

\* C2: a send whose 'to' is not a well-formed chain address makes no Address
\* Book lookup, no custody call and no chain call, and once the send handler
\* runs it answers 400 Bad Request.
C2_BadAddressNoCall ==
  \A p \in Procs :
    LET r == req[p] IN
    (r.ep = "send" /\ r.to.shape \notin {"checksum", "lower"})
      => /\ r.calls.lookup = 0 /\ r.calls.save = 0
         /\ r.calls.getw = 0 /\ r.calls.sign = 0 /\ r.calls.create = 0
         /\ ChainCalls(r) = 0
         /\ r.entered => (r.pc = "done" /\ r.status = 400 /\ r.err = "Bad Request")

C2_Witness ==
  \E p \in Procs :
    /\ req[p].ep = "send" /\ req[p].entered /\ req[p].to.shape = "text"
    /\ req[p].amount # AmtEmpty /\ req[p].status = 400

\* C3: a send makes at most one sign call and at most one broadcast attempt;
\* the broadcast attempt ends the request, with 201 when it succeeded and with
\* an error when it failed; a 201 has made exactly one of each.
C3_OneBroadcast ==
  \A p \in Procs :
    LET r == req[p] IN
    r.ep = "send"
      => /\ r.calls.bcast <= 1 /\ r.calls.sign <= 1
         /\ r.pc = "broadcast" => (r.calls.sign = 1 /\ r.calls.bcast = 0)
         /\ r.calls.bcast = 1 =>
              /\ r.pc = "done" /\ r.calls.sign = 1
              /\ r.status = 201 \/ (r.status = 500 /\ r.upfail = "rpc")
         /\ r.status = 201 => r.calls.bcast = 1

C3_Witness ==
  \E p \in Procs :
    /\ req[p].ep = "send" /\ req[p].pc = "done" /\ req[p].calls.bcast = 1
    /\ req[p].status = 500

\* C4: GET /api/transaction/:hash needs no authentication: a request without
\* an Authorization header and with a well-formed hash reaches the receipt
\* lookup and is answered 200 or 404.
C4_LookupNeedsNoAuth ==
  \A p \in Procs :
    LET r == req[p] IN
    (/\ r.ep = "tx" /\ r.pc = "done" /\ ~r.hdr.present
     /\ r.hash.prefix /\ r.hash.len = 66 /\ r.hash.hex)
      => r.status \in {200, 404} /\ r.calls.receipt = 1

\* C5: a send whose amount is "0", negative or not a number is rejected with
\* 400 Bad Request and nothing is signed or broadcast (stated for requests
\* that no earlier step and no provider failure has ended).
C5_BadAmountIs400 ==
  \A p \in Procs :
    LET r == req[p] IN
    (/\ r.ep = "send" /\ r.amount \in {Amt0, AmtNeg, AmtText}
     /\ r.wallet.status = "ready" /\ r.upfail = "")
      => /\ r.calls.sign = 0 /\ r.calls.bcast = 0
         /\ r.pc = "done" => r.status = 400

\* C6: a request to GET /wallet, GET /wallet/status or POST /transaction/send
\* whose token is missing, malformed, invalid or expired never enters the
\* route handler, makes no Address Book, custody or chain call, and is
\* answered 401.
BadToken(h) ==
  \/ ~h.present
  \/ h.token.kind \in {"absent", "garbage", "expired"}
  \/ h.token.kind = "valid" /\ \A e \in accounts : UserIdOf(e) # h.token.user

C6_BadTokenIs401 ==
  \A p \in Procs :
    LET r == req[p] IN
    (r.ep \in {"wallet", "status", "send"} /\ BadToken(r.hdr))
      => /\ ~r.entered
         /\ r.calls.lookup = 0 /\ r.calls.save = 0
         /\ r.calls.getw = 0 /\ r.calls.sign = 0 /\ r.calls.create = 0
         /\ ChainCalls(r) = 0
         /\ r.pc = "done" => r.status = 401

C6_Witness ==
  \E p \in Procs :
    /\ req[p].ep = "send" /\ req[p].pc = "done" /\ req[p].status = 401
    /\ req[p].hdr.token.kind = "expired" /\ req[p].calls.verify = 1

\* C7: a request that an identity, custody or RPC provider error has ended is
\* answered 500.
C7_UpstreamIs500 ==
  \A p \in Procs :
    LET r == req[p] IN
    (r.pc = "done" /\ r.upfail \in {"idp", "custody", "custody409", "rpc"})
      => r.status = 500

\* C8: a signup whose wallet creation the custody provider answered with 409
\* is answered 409 Conflict.
C8_ConflictIs409 ==
  \A p \in Procs :
    LET r == req[p] IN
    (r.ep = "signup" /\ r.pc = "done" /\ r.upfail = "custody409")
      => r.status = 409 /\ r.err = "Conflict"

\* C9: signup calls wallet creation at most once, only after the identity
\* provider returned the user and keyed by that user's id; it saves at most
\* one row, only after wallet creation returned a wallet, and the row maps
\* that id to that wallet's id; a 201 has done both exactly once and the
\* table holds that row exactly once.
C9_SignupSequence ==
  \A p \in Procs :
    LET r == req[p] IN
    r.ep = "signup"
      => /\ r.calls.create <= 1 /\ r.calls.save <= 1
         /\ r.calls.create = 1 =>
              /\ r.calls.signup = 1 /\ r.user = UserIdOf(r.email)
              /\ r.key = r.user
         /\ r.calls.save = 1 =>
              /\ r.calls.create = 1 /\ r.wallet.id \in 1..Len(wallets)
              /\ wallets[r.wallet.id].userIdentifier = r.user
              /\ r.saved.supabase_id = r.user
              /\ r.saved.para_wallet_id = r.wallet.id
         /\ r.status = 201 =>
              /\ r.calls.create = 1 /\ r.calls.save = 1
              /\ Cardinality({i \in 1..Len(db) : db[i] = r.saved}) = 1

C9_Witness ==
  \E p \in Procs :
    /\ req[p].ep = "signup" /\ req[p].status = 201
    /\ req[p].saved.para_wallet_id = req[p].wallet.id /\ req[p].wallet.id > 0

\* C10: the Address Book never holds two mappings of one userId, nor two
\* mappings of one walletId.
C10_UniqueMappings ==
  \A i, j \in 1..Len(db) :
    i # j => /\ db[i].supabase_id # db[j].supabase_id
             /\ db[i].para_wallet_id # db[j].para_wallet_id

\* A second mapping for a user that has one was offered to the table.
C10_Witness ==
  \E p \in Procs, i \in 1..Len(db) :
    /\ req[p].ep = "signup" /\ req[p].upfail = "db"
    /\ db[i].supabase_id = req[p].saved.supabase_id
    /\ db[i].para_wallet_id # req[p].saved.para_wallet_id

C13_NotReadyNoBalance ==
  \A p \in Procs :
    LET r == req[p] IN
    /\ r.ep = "status" => ChainCalls(r) = 0 /\ r.balance = NoBalance
    /\ (r.ep = "wallet" /\ r.wallet # NoWallet
          /\ ~(r.wallet.status = "ready" /\ r.wallet.address # NoAddr)) =>
         /\ ChainCalls(r) = 0
         /\ r.pc = "done" /\ r.status = 200
         /\ r.balance = NoBalance /\ r.body = r.wallet.status

C13_Witness ==
  \E p \in Procs :
    /\ req[p].ep = "wallet" /\ req[p].pc = "done" /\ req[p].status = 200
    /\ req[p].wallet.status = "creating" /\ req[p].balance = NoBalance
    /\ req[p].calls.balance = 0

\* C14: a lookup of a well-formed hash by an authenticated caller is answered
\* 404 when the chain has no receipt for it and 200 with status "success" or
\* "failed", as the receipt's status code says, when it has one; so lookups
\* of a mined transaction are never answered 404.
C14_LookupFollowsReceipt ==
  [][\A p \in Procs :
       (req[p].ep = "tx" /\ req[p].pc = "receipt" /\ req'[p].pc = "done") =>
         /\ ReceiptOf(req[p].hash) = {} => req'[p].status = 404
         /\ \A c \in ReceiptOf(req[p].hash) :
              /\ req'[p].status = 200
              /\ req'[p].body = IF c.status = 1 THEN "success" ELSE "failed"]_vars

\* C15: a lookup whose hash is not "0x" followed by 64 hexadecimal digits is
\* answered 400 by the route and never reaches the receipt query.
C15_MalformedHashIs400 ==
  \A p \in Procs :
    LET r == req[p] IN
    (r.ep = "tx" /\ r.entered
       /\ ~(r.hash.prefix /\ r.hash.len = 66 /\ r.hash.hex)) =>
      /\ r.calls.receipt = 0
      /\ r.pc = "done" /\ r.status = 400

\* C16 as stated: the process does not start when any of the configuration
\* values (the identity provider's four, the custody key and base URL, the
\* chain RPC endpoint and chain id, the port, the environment name) is
\* absent.
C16_AllValuesRequired ==
  boot.state = "started" => \A v \in ConfigVars : boot.env[v] # "absent"

\* C16 amended: the process refuses to start exactly when one of
\* SUPABASE_URL, SUPABASE_ANON_KEY, SUPABASE_SERVICE_ROLE_KEY,
\* SUPABASE_JWT_SECRET, PARA_API_KEY, SEPOLIA_RPC_URL is absent or empty;
\* the custody base URL, the chain id, the port and the environment name are
\* optional and fall back to built-in defaults.
C16_SixValuesRequired ==
  boot.state # "loading" =>
    /\ (boot.state = "failed") =
         (\E v \in {"SUPABASE_URL", "SUPABASE_ANON_KEY",
                    "SUPABASE_SERVICE_ROLE_KEY", "SUPABASE_JWT_SECRET",
                    "PARA_API_KEY", "SEPOLIA_RPC_URL"} : boot.env[v] # "set")
    /\ boot.state \in {"failed", "started"}
    /\ \A v \in {"PARA_BASE_URL", "SEPOLIA_CHAIN_ID", "PORT", "NODE_ENV"} :
         boot.config[v] = IF boot.env[v] = "set" THEN "env" ELSE "default"

C16_Witness ==
  /\ boot.state = "started"
  /\ boot.env["PARA_BASE_URL"] = "absent" /\ boot.env["PORT"] = "empty"
  /\ boot.config["PARA_BASE_URL"] = "default"

\* C17: the user_wallets table changes only when the insert of a signup
\* succeeds, and then by one appended row; no step of login, GET /wallet,
\* GET /wallet/status, send (at whatever step it ends) or the transaction
\* lookup, and no provider event, changes, removes or reorders a row.
C17_OnlySignupWrites ==
  [][db' # db =>
       \E p \in Procs :
         /\ req[p].ep = "signup" /\ req[p].pc = "saveUserWallet"
         /\ req'[p].pc = "done" /\ req'[p].status = 201
         /\ db' = Append(db, req'[p].saved)]_vars

C17_Witness ==
  \E p \in Procs :
    /\ req[p].ep = "send" /\ req[p].pc = "done" /\ req[p].status = 201
    /\ req[p].wallet.address # NoAddr
    /\ Len(db) = 1 /\ db[1].supabase_id = req[p].user
    /\ db[1].wallet_address = NoAddr

\* The exact decimal quotient wei / 10^18 as a string: the whole part, and
\* the fraction without trailing zeros when there is one ("1.5", "2", "0").
RECURSIVE StripTrailingZeros(_)
StripTrailingZeros(s) ==
  IF s # << >> /\ s[Len(s)] = "0" THEN StripTrailingZeros(SubSeq(s, 1, Len(s) - 1))
  ELSE s

ExactEth(wei) ==
  LET padded == IF Len(wei) > Decimals THEN wei
                ELSE Zeros(Decimals + 1 - Len(wei)) \o wei
      whole  == StripZeros(SubSeq(padded, 1, Len(padded) - Decimals))
      frac   == StripTrailingZeros(SubSeq(padded, Len(padded) - Decimals + 1,
                                          Len(padded)))
  IN  IF frac = << >> THEN whole ELSE whole \o <<".">> \o frac

\* C18: the balance.eth of a GET /wallet response is the exact decimal
\* quotient of balance.wei by 10^18, fraction kept (1500000000000000000 wei
\* gives "1.5"); stated for responses whose two balance reads agreed.
C18_EthIsExactDecimal ==
  \A p \in Procs :
    LET r == req[p] IN
    (r.ep = "wallet" /\ r.pc = "done" /\ r.status = 200
       /\ r.balance # NoBalance /\ r.ethRead = r.balance.wei) =>
      r.balance.eth = ExactEth(r.balance.wei)

\* The number a digit string denotes, modulo m (Horner's rule).
DigitValue(c) ==
  CHOOSE n \in 0..9 : <<"0", "1", "2", "3", "4", "5", "6", "7", "8", "9">>[n + 1] = c

RECURSIVE NumMod(_, _, _)
NumMod(s, m, acc) ==
  IF s = << >> THEN acc
  ELSE NumMod(Tail(s), m, (acc * 10 + DigitValue(Head(s))) % m)

RECURSIVE Pow10Mod(_, _)
Pow10Mod(k, m) == IF k = 0 THEN 1 % m ELSE (10 * Pow10Mod(k - 1, m)) % m

\* Pairwise coprime moduli whose product exceeds 10^23: two naturals below
\* 10^23 that agree modulo each of them are equal.
Moduli == {9973, 9967, 9949, 9941, 9931, 9929}

\* C19: for every amount that is a plain decimal string (digits, at most one
\* ".", at least one digit, at most 18 fractional digits) the transaction is
\* built and its value is exactly amount * 10^18: the number written by the
\* amount's digits times 10^(18 - fractional digits).  "0.001" gives
\* 1000000000000000.  A value is only ever built from an accepted amount.
C19_ValueIsExact ==
  calc.pc = "out" =>
    LET s     == calc.amount
        dot   == DotAt(s, 1)
        whole == IF dot = 0 THEN s ELSE SubSeq(s, 1, dot - 1)
        frac  == IF dot = 0 THEN << >> ELSE SubSeq(s, dot + 1, Len(s))
        plain == /\ AllDigits(whole) /\ AllDigits(frac)
                 /\ Len(whole) + Len(frac) > 0 /\ Len(frac) <= 18
    IN
    /\ plain =>
         /\ calc.built /\ calc.value.ok /\ ~calc.value.neg
         /\ AllDigits(calc.value.digits) /\ calc.value.digits # << >>
         /\ Len(calc.value.digits) <= Len(whole) + 18
         /\ \A m \in Moduli :
              NumMod(calc.value.digits, m, 0)
                = (NumMod(whole \o frac, m, 0) * Pow10Mod(18 - Len(frac), m)) % m
    /\ calc.amount = Amt0001 => calc.value.digits = <<"1">> \o Zeros(15)
    /\ ~calc.built => calc.value = NoValue

C19_Witness ==
  /\ calc.pc = "out" /\ calc.built
  /\ calc.amount = OneWei /\ calc.value.digits = <<"1">>

\* C20: a wallet the custody provider reports ready stays as it is; every
\* answered GET /wallet/status carries the provider's status and address at
\* the time of its fetch, "creating" with a null address or "ready" with the
\* wallet's address; so once the provider reports the user's wallet ready,
\* each answered poll returns the same "ready" and address, and a user whose
\* polls keep being answered and whose wallet becomes ready eventually gets
\* "ready" with a non-null address.
C20_StatusPolling ==
  /\ [][/\ \A w \in 1..Len(wallets) :
             wallets[w].status = "ready" =>
               Len(wallets') >= w /\ wallets'[w] = wallets[w]
        /\ \A p \in Procs :
             (req[p].ep = "status" /\ req[p].pc = "getWallet"
                /\ req'[p].status = 200) =>
               LET w == wallets[req[p].uw.para_wallet_id] IN
               /\ req'[p].pc = "done"
               /\ req'[p].body = w.status /\ req'[p].addr = w.address
               /\ w.status = "ready" => req'[p].addr # NoAddr
               /\ w.status = "creating" => req'[p].addr = NoAddr]_vars
  /\ \A u \in UserIds :
       (/\ []<><<\E p \in Procs :
                   /\ req[p].ep = "status" /\ req[p].user = u
                   /\ req[p].pc = "getWallet" /\ req'[p].status = 200>>_vars
        /\ <>(\E i \in 1..Len(db) :
                /\ db[i].supabase_id = u
                /\ wallets[db[i].para_wallet_id].status = "ready"))
       => <>(\E p \in Procs :
               /\ req[p].ep = "status" /\ req[p].user = u
               /\ req[p].pc = "done" /\ req[p].status = 200
               /\ req[p].body = "ready" /\ req[p].addr # NoAddr)

C20_Witness ==
  \E p \in Procs :
    /\ req[p].ep = "status" /\ req[p].pc = "done" /\ req[p].status = 200
    /\ req[p].body = "ready"
    /\ req[p].addr = wallets[req[p].uw.para_wallet_id].address
    /\ req[p].addr # NoAddr

\* C21: the transaction a send hands to broadcast has exactly the fields of
\* the transaction object built before signing (to and value from the
\* request, the nonce and gas fields, the chain id) and the signature of the
\* signer's response; the data the signer echoes is not used.
C21_SignedIsBuilt ==
  \A p \in Procs :
    LET r == req[p] IN
    (r.ep = "send" /\ (r.pc = "broadcast" \/ r.calls.bcast > 0)) =>
      /\ r.signedTx.tx = r.tx
      /\ r.signedTx.signature = r.signResponse.signature
      /\ r.signedTx.tx.to = getAddress(r.to)
      /\ r.signedTx.tx.value = parseEther(r.amount)
      /\ r.signedTx.tx.from = getAddress(r.wallet.address)
      /\ r.signedTx.tx.chainId = boot.config["SEPOLIA_CHAIN_ID"]
      /\ r.status = 201 => r.txHash = TxHash(r.tx)

C21_Witness ==
  \E p \in Procs :
    /\ req[p].ep = "send" /\ req[p].status = 201
    /\ req[p].signResponse.data # req[p].tx
    /\ req[p].signedTx.tx = req[p].tx

\* C22: within one send the external calls are made at most once each and in
\* the order lookup of the row, fetch of the wallet, nonce, fees, sign,
\* broadcast, each only after the one before it succeeded; an error of a
\* provider ends the request with 500 at once; a missing row ends it with 404
\* before any custody or chain call, and a failed sign before any broadcast.
SendCalls == <<"lookup", "getw", "nonce", "fee", "sign", "bcast">>

C24_FirstReadyFetchReturns ==
  LET n == Len(poll.seen) IN
  poll.pc # "idle" =>
    /\ \A i \in 1..(n - 1) : poll.seen[i] # "ready"
    /\ n <= poll.fetches /\ poll.fetches <= n + 1
    /\ (n > 0 /\ poll.seen[n] = "ready") =>
         /\ poll.pc = "done" /\ poll.thrown = "" /\ poll.fetches = n
         /\ poll.returned = wallets[poll.walletId]
         /\ poll.returned.status = "ready"
    /\ poll.returned # NoWallet => n > 0 /\ poll.seen[n] = "ready"
    /\ poll.thrown = "timeout" =>
         /\ n = poll.maxAttempts /\ poll.fetches = poll.maxAttempts
         /\ \A i \in 1..n : poll.seen[i] # "ready"

\* A poll that returned the wallet at its last allowed fetch, after fetches
\* that saw it not ready.
C24_Witness ==
  /\ poll.pc = "done" /\ poll.returned # NoWallet
  /\ poll.maxAttempts = MaxPollAttempts
  /\ Len(poll.seen) = MaxPollAttempts

\* C23: nothing makes a send wait for another send of the same wallet: a
\* send that is about to read the nonce can always do so, whatever other
\* sends are in flight, and what it reads is the sender's transaction count
\* at the latest block, whatever other sends have read or broadcast.  (The
\* witness is two sends of one wallet that both broadcast with one nonce.)
C23_NoMutualExclusion ==
  /\ [](\A p \in Procs : req[p].pc = "getNonce" => ENABLED GetNonce(p))
  /\ [][\A p \in Procs :
          (req[p].pc = "getNonce" /\ req'[p].pc = "getGasPrices") =>
            req'[p].tx.nonce = txCount[req[p].tx.from.id]]_vars

\* Two sends of one wallet in flight together that both signed and
\* broadcast a transaction with the same nonce; the node took both.
C23_Witness ==
  \E p, q \in Procs :
    /\ p # q
    /\ req[p].ep = "send" /\ req[q].ep = "send"
    /\ req[p].calls.sign = 1 /\ req[q].calls.sign = 1
    /\ req[p].calls.bcast = 1 /\ req[q].calls.bcast = 1
    /\ req[p].status = 201 /\ req[q].status = 201
    /\ req[p].signedTx.tx.from = req[q].signedTx.tx.from
    /\ req[p].signedTx.tx.nonce = req[q].signedTx.tx.nonce

\* C25: in the transaction a send has built, gasLimit, maxFeePerGas and
\* maxPriorityFeePerGas each equal the field of the request body when the
\* body has it; otherwise the two fees equal what the fee lookup of this
\* request returned and gasLimit equals 21000.
C25_GasFromOverrideOrEstimate ==
  \A p \in Procs :
    LET r == req[p] IN
    (r.ep = "send" /\ (r.pc \in {"signRaw", "broadcast"} \/ r.calls.sign > 0)) =>
      /\ r.fees \in FeeEstimates
      /\ r.tx.gasLimit =
           IF r.gas.gasLimit # "" THEN r.gas.gasLimit ELSE "21000"
      /\ r.tx.maxFeePerGas =
           IF r.gas.maxFeePerGas # "" THEN r.gas.maxFeePerGas
           ELSE r.fees.maxFeePerGas
      /\ r.tx.maxPriorityFeePerGas =
           IF r.gas.maxPriorityFeePerGas # "" THEN r.gas.maxPriorityFeePerGas
           ELSE r.fees.maxPriorityFeePerGas

\* An accepted send with one fee overridden and the other two fields not.
C25_Witness ==
  \E p \in Procs :
    /\ req[p].ep = "send" /\ req[p].status = 201
    /\ req[p].gas.maxFeePerGas = "40" /\ req[p].tx.maxFeePerGas = "40"
    /\ req[p].gas.gasLimit = "" /\ req[p].tx.gasLimit = "21000"
    /\ req[p].gas.maxPriorityFeePerGas = ""
    /\ req[p].tx.maxPriorityFeePerGas = "2"

\* C26: once a request of a user has fetched the wallet as ready with an
\* address, the user's row carries that address as wallet_address; a row
\* carries no address before a request has seen one or the signup stored one.
C26_AddressCachedOnceKnown ==
  \A p \in Procs :
    LET r == req[p] IN
    (r.ep \in {"wallet", "status", "send"} /\ r.calls.getw = 1
       /\ r.pc = "done" /\ WalletIsReady(r.wallet)) =>
      \A i \in RowsOf(r.user) : db[i].wallet_address = r.wallet.address

C28_FeeLookupDespiteOverrides ==
  \A p \in Procs :
    LET r == req[p] IN
    (r.ep = "send" /\ r.gas.maxFeePerGas # "" /\ r.gas.maxPriorityFeePerGas # "") =>
      /\ (r.pc \in {"signRaw", "broadcast"} \/ r.calls.sign > 0) =>
           r.calls.fee = 1 /\ r.fees \in FeeEstimates
      /\ (r.calls.nonce = 1 /\ r.pc = "done" /\ r.calls.fee = 0) =>
           r.status = 500 /\ r.upfail = "rpc"
      /\ r.upfail = "feedata" =>
           /\ r.pc = "done" /\ r.status = 500 /\ r.err = "Transaction Failed"
           /\ r.calls.fee = 1 /\ r.calls.sign = 0 /\ r.calls.bcast = 0
      /\ (r.calls.fee = 1 /\ r.fees = NoFees /\ r.pc = "done") =>
           /\ r.status = 500 /\ r.upfail \in {"rpc", "feedata"}
           /\ r.calls.sign = 0 /\ r.calls.bcast = 0

\* A send with both fees given that failed for want of fee data.
C28_Witness ==
  \E p \in Procs :
    /\ req[p].ep = "send" /\ req[p].pc = "done" /\ req[p].status = 500
    /\ req[p].gas.maxFeePerGas = "40" /\ req[p].gas.maxPriorityFeePerGas = "3"
    /\ req[p].upfail = "feedata" /\ req[p].calls.fee = 1
    /\ req[p].calls.sign = 0

\* An account without a row and without a signup on its way to the row:
\* the signup that created it failed at wallet creation or at the insert
\* (or after the provider had created the account).
SignupFailedFor(e) ==
  /\ e \in accounts
  /\ RowsOf(UserIdOf(e)) = {}
  /\ \A p \in Procs : ~(/\ req[p].ep = "signup" /\ req[p].email = e
                         /\ req[p].pc \in {"createWallet", "saveUserWallet"})

\* C29: with an identity provider that rejects a second signup for an
\* e-mail, an account left without a row by a failed signup stays without a
\* row whatever is requested later; a GET /wallet, GET /wallet/status or send
\* of that user never calls the custody provider or the chain and never ends
\* with 200 or 201: it ends with 404 when its lookup is answered (401 when
\* the token check fails, 500 when the lookup itself fails).
C29_NoMappingEver ==
  /\ [][\A e \in Emails : SignupFailedFor(e) => SignupFailedFor(e)']_vars
  /\ [](\A p \in Procs : \A e \in Emails :
          LET r == req[p] IN
          (SignupFailedFor(e) /\ r.ep \in {"wallet", "status", "send"}
             /\ r.hdr.token.user = UserIdOf(e)) =>
            /\ r.calls.getw = 0 /\ r.calls.sign = 0 /\ ChainCalls(r) = 0
            /\ r.uw = NoRow
            /\ r.pc = "done" =>
                 \/ r.status = 404 /\ r.calls.lookup = 1 /\ r.err = "Not Found"
                 \/ r.status = 401 /\ r.calls.lookup = 0
                 \/ r.status = 500 /\ r.calls.lookup = 1 /\ r.upfail = "db")

\* A send answered 404 for an account whose signup failed after a wallet had
\* been created for it (the insert failed).
C29_Witness ==
  \E p \in Procs : \E e \in Emails :
    /\ SignupFailedFor(e)
    /\ HasWalletFor(UserIdOf(e))
    /\ req[p].ep = "send" /\ req[p].user = UserIdOf(e)
    /\ req[p].pc = "done" /\ req[p].status = 404

\* C30: a GET /wallet response with a balance has made two balance reads;
\* balance.wei is what the first returned and balance.eth is computed from
\* what the second returned, so the two describe one balance when the reads
\* returned the same and may describe different balances otherwise.
C30_TwoBalanceReads ==
  \A p \in Procs :
    LET r == req[p] IN
    (r.ep = "wallet" /\ r.pc = "done" /\ r.status = 200 /\ r.balance # NoBalance) =>
      /\ r.calls.balance = 2
      /\ r.balance.wei \in Balances /\ r.ethRead \in Balances
      /\ r.balance.eth = getBalanceInEth(r.ethRead)
      /\ r.ethRead = r.balance.wei => r.balance.eth = getBalanceInEth(r.balance.wei)

\* A response whose wei is 1.5 ether and whose eth is "2".
C30_Witness ==
  \E p \in Procs :
    /\ req[p].ep = "wallet" /\ req[p].pc = "done" /\ req[p].status = 200
    /\ req[p].balance.wei = <<"1", "5">> \o Zeros(Decimals - 1)
    /\ req[p].balance.eth = <<"2">>
    /\ req[p].balance.eth # getBalanceInEth(req[p].balance.wei)

====
